---- MODULE Spec2Model ----
(***************************************************************************)
(* VaultFlex: ingestion pipeline (ledger, chunk archive, vector index),    *)
(* scoped knowledge graph, and the hybrid retriever.                       *)
(*                                                                         *)
(* Text is modelled as a sequence of one-character strings, so that        *)
(* strip(), lower(), startswith() and CONTAINS are computed, not assumed.  *)
(***************************************************************************)
EXTENDS Integers, Sequences, FiniteSets, Bags, TLC

VARIABLES
    bronze,       \* data/bronze/<scope>/<file>: scope -> (file name -> bytes)
    ledger,       \* data/ingested_hashes.json: "<scope>/<file>" -> digest
    silver,       \* data/silver/<scope>_chunks.json: scope -> list of chunks
    gold,         \* data/gold/<scope>: scope -> [stored, chunks], the FAISS index
    entities,     \* Neo4j (:Entity) nodes, a bag of [name, scope]
    relations,    \* Neo4j [:RELATION] edges, a bag of [s, type, scope, o]
    run,          \* what the most recent pipeline run did (observation)
    clean,        \* scope -> the last run saw exactly today's raw files
    processed,    \* <<scope, file, bytes>>: the bytes last recorded for the
                  \* file were loaded and chunked (observation)
    exists,       \* scope -> data/bronze/<scope> and data/gold/<scope> exist
    chat_history, \* st.session_state["chat_history"]: messages sent to the model
    messages,     \* st.session_state.messages: what the chat page shows
    last_scope,   \* st.session_state.last_scope
    turns,        \* questions asked so far
    ans,          \* what the most recent answer did (observation)
    call,         \* the most recent direct call of a function: arguments, result
    procs         \* ingestion runs in progress side by side: run -> its position

vars == <<bronze, ledger, silver, gold, entities, relations,
          run, clean, processed, exists,
          chat_history, messages, last_scope, turns, ans, call, procs>>

chatVars == <<chat_history, messages, last_scope, turns, ans>>

auxVars == <<call, procs>>

-----------------------------------------------------------------------------
(* Text helpers                                                            *)

Range(f) == {f[i] : i \in DOMAIN f}

IsSpace(c) == c \in {" ", "\n", "\t"}

UpperChars == <<"A", "B", "D", "F", "I", "N", "P", "R", "S", "T", "X">>
LowerChars == <<"a", "b", "d", "f", "i", "n", "p", "r", "s", "t", "x">>

\* str.lower(), one character
LowerChar(c) ==
    IF \E i \in DOMAIN UpperChars : UpperChars[i] = c
    THEN LowerChars[CHOOSE i \in DOMAIN UpperChars : UpperChars[i] = c]
    ELSE c

\* str.lower()
Lower(s) == [i \in DOMAIN s |-> LowerChar(s[i])]

\* str.strip()
Strip(s) ==
    LET keep == {i \in DOMAIN s : ~IsSpace(s[i])}
    IN  IF keep = {} THEN <<>>
        ELSE LET lo == CHOOSE i \in keep : \A j \in keep : i <= j
                 hi == CHOOSE i \in keep : \A j \in keep : j <= i
             IN  SubSeq(s, lo, hi)

\* str.startswith(prefix)
StartsWith(s, prefix) ==
    /\ Len(prefix) <= Len(s)
    /\ SubSeq(s, 1, Len(prefix)) = prefix

\* Cypher CONTAINS / Python "in" on strings
Contains(s, sub) ==
    \E i \in 0..(Len(s) - Len(sub)) : SubSeq(s, i + 1, i + Len(sub)) = sub

\* pathlib.Path.suffix: from the last dot of the name, "" when there is none
\* (or when the only dot leads the name)
Suffix(name) ==
    LET dots == {i \in DOMAIN name : name[i] = "." /\ i > 1}
    IN  IF dots = {} THEN <<>>
        ELSE SubSeq(name, CHOOSE i \in dots : \A j \in dots : j <= i, Len(name))

-----------------------------------------------------------------------------
(* Bounded inputs                                                          *)

KB   == <<"k", "b">>
KB2  == <<"k", "b", "2">>
Scopes == {KB, KB2}

FileA == <<"a", ".", "t", "x", "t">>
FileB == <<"b", ".", "P", "D", "F">>
Files == {FileA, FileB}
\* a file of a kind the page does not accept, put into a raw directory by hand
FileC == <<"c", ".", "c", "s", "v">>
\* the order in which Path.glob("*") lists a directory
GlobOrder == <<FileA, FileB, FileC>>

Bytes1 == <<"x">>
Bytes2 == <<"y">>
Contents == {Bytes1, Bytes2}

NoFile == <<>>
\* an entry that open(path, "rb") cannot read: a sub-directory, or a file
\* without read permission
Unreadable == <<"d", "i", "r">>

\* what users upload: <<scope, file name, bytes>>
Uploadable == {<<KB, FileA, Bytes1>>, <<KB, FileA, Bytes2>>, <<KB, FileB, Bytes1>>,
               <<KB2, FileA, Bytes1>>}

-----------------------------------------------------------------------------
(* ContentHasher + IngestionLedger                                         *)

\* hashlib.sha256(bytes).hexdigest(): a digest that identifies the bytes
get_file_hash(bytes) == <<"#">> \o bytes

\* f"{scope}/{file_path.name}"
ScopedKey(scope, name) == scope \o <<"/">> \o name

Put(f, k, v) == [x \in DOMAIN f \cup {k} |-> IF x = k THEN v ELSE f[x]]

\* variants of the ledger check: one that never recognises a file, one that
\* recognises a file by its key alone
is_already_ingested_never(led, scope, name, bytes) ==
    [ret |-> FALSE, ledger |-> Put(led, ScopedKey(scope, name), get_file_hash(bytes))]

is_already_ingested_by_key(led, scope, name, bytes) ==
    IF ScopedKey(scope, name) \in DOMAIN led
    THEN [ret |-> TRUE,  ledger |-> led]
    ELSE [ret |-> FALSE, ledger |-> Put(led, ScopedKey(scope, name), get_file_hash(bytes))]

\* The ledger test, which also records: [ret, ledger]
is_already_ingested(led, scope, name, bytes) ==
    LET file_hash  == get_file_hash(bytes)
        scoped_key == ScopedKey(scope, name)
    IN  IF scoped_key \in DOMAIN led /\ led[scoped_key] = file_hash
        THEN [ret |-> TRUE,  ledger |-> led]
        ELSE [ret |-> FALSE, ledger |-> Put(led, scoped_key, file_hash)]

\* upload pre-check of the UI: the names already ingested (read only)
check_ingested_status(led, scope, up) ==
    {f \in DOMAIN up :
        /\ ScopedKey(scope, f) \in DOMAIN led
        /\ led[ScopedKey(scope, f)] = get_file_hash(up[f])}

-----------------------------------------------------------------------------
(* DocumentLoader and ChunkSplitter                                        *)

SupportedExt == {<<".", "p", "d", "f">>, <<".", "d", "o", "c", "x">>,
                 <<".", "m", "d">>, <<".", "t", "x", "t">>}

Chunk(name, bytes) == [source |-> name, text |-> bytes]

\* One pass of load_documents over the directory listing. `failing` are the
\* files whose loader raises. Result: [docs, ledger, skipped, recorded,
\* raised]: get_file_hash is called outside the try block, so an entry it
\* cannot read ends the pass with its exception and no document is returned.
RECURSIVE LoadLoop(_, _, _, _, _, _)
LoadLoop(files, scope, dir, failing, led, acc) ==
    IF files = <<>> THEN [docs |-> acc.docs, ledger |-> led,
                          skipped |-> acc.skipped, recorded |-> acc.recorded,
                          raised |-> FALSE]
    ELSE
      LET name == Head(files)
          rest == Tail(files)
      IN  IF dir[name] = NoFile
          THEN LoadLoop(rest, scope, dir, failing, led, acc)
          ELSE IF dir[name] = Unreadable
          THEN [docs |-> <<>>, ledger |-> led, skipped |-> acc.skipped,
                recorded |-> acc.recorded, raised |-> TRUE]
          ELSE
            LET ext == Lower(Suffix(name))
                chk == is_already_ingested(led, scope, name, dir[name])
            IN  IF chk.ret
                THEN LoadLoop(rest, scope, dir, failing, chk.ledger,
                              [acc EXCEPT !.skipped = @ \cup {name}])
                ELSE IF ext \notin SupportedExt \/ name \in failing
                THEN LoadLoop(rest, scope, dir, failing, chk.ledger,
                              [acc EXCEPT !.recorded = @ \cup {name}])
                ELSE LoadLoop(rest, scope, dir, failing, chk.ledger,
                              [acc EXCEPT !.recorded = @ \cup {name},
                                          !.docs = Append(@, Chunk(name, dir[name]))])

\* a load_documents that takes back the record of a file whose load failed
load_documents_undo(scope, dir, failing, led) ==
    LET r    == LoadLoop(SelectSeq(GlobOrder, LAMBDA f : f \in DOMAIN dir),
                         scope, dir, failing, led,
                         [docs |-> <<>>, skipped |-> {}, recorded |-> {}])
        lost == {ScopedKey(scope, f) : f \in failing}
    IN  [r EXCEPT !.ledger = [k \in DOMAIN r.ledger \ lost |-> r.ledger[k]]]

load_documents(scope, dir, failing, led) ==
    LoadLoop(SelectSeq(GlobOrder, LAMBDA f : f \in DOMAIN dir),
             scope, dir, failing, led,
             [docs |-> <<>>, skipped |-> {}, recorded |-> {}])

\* Every document here is shorter than CHUNK_SIZE: one chunk per document;
\* the splitter makes no chunk of a document without text.
split_documents(docs) == SelectSeq(docs, LAMBDA d : Strip(d.text) # <<>>)

-----------------------------------------------------------------------------
(* GraphWriter                                                             *)

Node(name, scope) == [name |-> name, scope |-> scope]
Edge(s, type, scope, o) == [s |-> s, type |-> type, scope |-> scope, o |-> o]

AddOne(bag, e) == bag (+) SetToBag({e})

\* MERGE (n:Entity {name: $name}) ON CREATE SET n.scope = $scope
MergeEntity(ents, name, scope) ==
    IF \E n \in BagToSet(ents) : n.name = name
    THEN ents
    ELSE AddOne(ents, Node(name, scope))

\* CREATE in place of MERGE
CreateRelation(rels, s, type, scope, o) == AddOne(rels, Edge(s, type, scope, o))

\* MERGE (s)-[r:RELATION {type: $predicate, scope: $scope}]->(o)
MergeRelation(rels, s, type, scope, o) ==
    IF BagIn(Edge(s, type, scope, o), rels)
    THEN rels
    ELSE AddOne(rels, Edge(s, type, scope, o))

\* an insert_triple that stores its arguments as given
insert_triple_as_given(ents, rels, subject, predicate, obj, scope) ==
    LET e1 == MergeEntity(ents, subject, scope)
        e2 == MergeEntity(e1, obj, scope)
    IN  [entities |-> e2, relations |-> MergeRelation(rels, subject, predicate, scope, obj)]

\* [entities, relations] after the statement of insert_triple
insert_triple(ents, rels, subject, predicate, obj, scope) ==
    LET s == Lower(Strip(subject))
        p == Lower(Strip(predicate))
        o == Lower(Strip(obj))
        e1 == MergeEntity(ents, s, scope)
        e2 == MergeEntity(e1, o, scope)
    IN  [entities |-> e2, relations |-> MergeRelation(rels, s, p, scope, o)]

\* The inner loop of process_chunks over one response of the extractor.
RECURSIVE InsertAll(_, _, _)
InsertAll(g, triples, scope) ==
    IF triples = <<>> THEN g
    ELSE
      LET t == Head(triples)
          s == Strip(t.subject)
          p == Strip(t.predicate)
          o == Strip(t.object)
      IN  IF s # <<>> /\ p # <<>> /\ o # <<>>
          THEN LET r == insert_triple(g.entities, g.relations, s, p, o, scope)
               IN  InsertAll([entities |-> r.entities, relations |-> r.relations,
                              inserted |-> g.inserted + 1], Tail(triples), scope)
          ELSE InsertAll(g, Tail(triples), scope)

\* process_chunks: responses[i] is what extract_triples_with_llm returns for
\* chunk i. Result: [entities, relations, inserted].
RECURSIVE ProcessLoop(_, _, _, _)
ProcessLoop(g, chunks, responses, scope) ==
    IF chunks = <<>> THEN g
    ELSE IF Strip(Head(chunks).text) = <<>>
         THEN ProcessLoop(g, Tail(chunks), Tail(responses), scope)
         ELSE ProcessLoop(InsertAll(g, Head(responses), scope),
                          Tail(chunks), Tail(responses), scope)

process_chunks(ents, rels, chunks, responses, scope) ==
    ProcessLoop([entities |-> ents, relations |-> rels, inserted |-> 0],
                chunks, responses, scope)

Degree(rels, name) ==
    Cardinality({r \in BagToSet(rels) : r.s = name \/ r.o = name})

\* a delete that leaves every record in place
KeepAll(bag, S) == bag

Keep(bag, S) == [e \in S |-> bag[e]]

\* DETACH DELETE of the scope's nodes in place of the three statements
DetachDeleteGraph(ents, rels, scope) ==
    LET tagged == {n.name : n \in {n \in BagToSet(ents) : n.scope = scope}}
    IN  [entities  |-> Keep(ents, {n \in BagToSet(ents) : n.scope # scope}),
         relations |-> Keep(rels, {r \in BagToSet(rels) :
                                     r.scope # scope /\ r.s \notin tagged /\ r.o \notin tagged}),
         raised    |-> FALSE]

\* The three statements delete_scope sends to the graph store. A plain
\* DELETE of a node that still has relationships is refused by the store:
\* the statement is rolled back and raises, and the handler's except clause
\* skips what follows. Result: [entities, relations, raised].
DeleteGraph(ents, rels, scope) ==
    LET rels1   == Keep(rels, {r \in BagToSet(rels) : r.scope # scope})
        tagged  == {n \in BagToSet(ents) : n.scope = scope}
        refused == \E n \in tagged : Degree(rels1, n.name) > 0
        ents2   == Keep(ents, BagToSet(ents) \ tagged)
        ents3   == Keep(ents2, {n \in BagToSet(ents2) : Degree(rels1, n.name) > 0})
    IN  IF refused
        THEN [entities |-> ents,  relations |-> rels1, raised |-> TRUE]
        ELSE [entities |-> ents3, relations |-> rels1, raised |-> FALSE]

-----------------------------------------------------------------------------
(* What the extractor may hand to process_chunks                           *)

Triple(s, p, o) == [subject |-> s, predicate |-> p, object |-> o]

TripleAB  == Triple(<<"A">>, <<"R">>, <<"b">>)
TripleAB2 == Triple(<<" ", "a">>, <<"r">>, <<"b", " ">>)
TripleAD  == Triple(<<"a">>, <<"r">>, <<"d">>)
TripleDB  == Triple(<<"d">>, <<"r">>, <<"b">>)
TripleBad == Triple(<<" ">>, <<"r">>, <<"b">>)
RawTriples == {TripleAB, TripleAB2, TripleAD, TripleDB, TripleBad}

\* longest response of the extractor in the graph specification
MaxResponse == 2

\* questions asked in one behaviour, at most
MaxTurns == 2

\* texts handed to extract_keywords in one call, at most, and the largest top_k
MaxTexts == 2
MaxTopK  == 3

\* the largest max_retries handed to extract_triples_with_llm
MaxRetries == 2

RECURSIVE SeqsUpTo(_, _)
SeqsUpTo(S, n) ==
    IF n = 0 THEN {<<>>}
    ELSE LET shorter == SeqsUpTo(S, n - 1)
         IN  shorter \cup {Append(q, x) : q \in shorter, x \in S}

\* responses during a pipeline run / in the graph specification
RunResponses   == {<<>>, <<TripleAB>>}
GraphResponses == SeqsUpTo(RawTriples, MaxResponse)

BlankChunk  == [source |-> FileA, text |-> <<" ">>]
GraphChunks == {<<Chunk(FileA, Bytes1)>>, <<BlankChunk>>}

-----------------------------------------------------------------------------
(* extract_triples_with_llm                                                *)

KeySubject   == <<"s", "u", "b", "j", "e", "c", "t">>
KeyPredicate == <<"p", "r", "e", "d", "i", "c", "a", "t", "e">>
KeyObject    == <<"o", "b", "j", "e", "c", "t">>

\* re.search(r"\[\s*{.*?}\s*\]", raw_output, re.DOTALL): the leftmost "["
\* that is followed by white space and "{", up to the nearest "}" after it
\* that is followed by white space and "]"
ArraySearch(raw_output) ==
    LET n == Len(raw_output)
        RECURSIVE Skip(_)
        Skip(i) == IF i <= n /\ IsSpace(raw_output[i]) THEN Skip(i + 1) ELSE i
        Is(i, c) == i <= n /\ raw_output[i] = c
        Ends(i) == {e \in (Skip(i + 1) + 1)..n : Is(e, "}") /\ Is(Skip(e + 1), "]")}
        starts  == {i \in 1..n : Is(i, "[") /\ Is(Skip(i + 1), "{") /\ Ends(i) # {}}
    IN  IF starts = {} THEN [found |-> FALSE, group |-> <<>>]
        ELSE LET i == CHOOSE i \in starts : \A k \in starts : i <= k
                 e == CHOOSE e \in Ends(i) : \A k \in Ends(i) : e <= k
             IN  [found |-> TRUE, group |-> SubSeq(raw_output, i, Skip(e + 1))]

\* json.loads on texts of strings, digits, objects and arrays: a string is
\* [kind "str", val characters], a number [kind "num"], an array [kind "arr",
\* val elements], an object [kind "obj", val <<key, value>> pairs]; a control
\* character inside a string, a missing colon, comma or bracket, and text
\* after the value are errors
json_loads(text) ==
    LET n == Len(text)
        Digits == {"0", "1", "2", "3", "4", "5", "6", "7", "8", "9"}
        Fail == [ok |-> FALSE, kind |-> "none", val |-> <<>>, next |-> 0]
        Done(kind, val, next) == [ok |-> TRUE, kind |-> kind, val |-> val, next |-> next]
        Is(i, c) == i <= n /\ text[i] = c
        RECURSIVE Skip(_)
        Skip(i) == IF i <= n /\ IsSpace(text[i]) THEN Skip(i + 1) ELSE i
        RECURSIVE DigitsEnd(_)
        DigitsEnd(i) == IF i <= n /\ text[i] \in Digits THEN DigitsEnd(i + 1) ELSE i
        String(i) ==
            LET ends == {j \in (i + 1)..n : text[j] = "\""}
                j    == CHOOSE j \in ends : \A k \in ends : j <= k
                body == SubSeq(text, i + 1, j - 1)
            IN  IF ~Is(i, "\"") \/ ends = {} THEN Fail
                ELSE IF \E k \in DOMAIN body : body[k] \in {"\n", "\t", "\\"} THEN Fail
                ELSE Done("str", body, j + 1)
        RECURSIVE Value(_), Members(_, _), Elements(_, _)
        Value(from) ==
            LET i == Skip(from)
            IN  IF i > n THEN Fail
                ELSE IF text[i] = "\"" THEN String(i)
                ELSE IF text[i] \in Digits
                     THEN Done("num", SubSeq(text, i, DigitsEnd(i) - 1), DigitsEnd(i))
                ELSE IF text[i] = "{"
                     THEN IF Is(Skip(i + 1), "}") THEN Done("obj", <<>>, Skip(i + 1) + 1)
                          ELSE Members(Skip(i + 1), <<>>)
                ELSE IF text[i] = "["
                     THEN IF Is(Skip(i + 1), "]") THEN Done("arr", <<>>, Skip(i + 1) + 1)
                          ELSE Elements(i + 1, <<>>)
                ELSE Fail
        Members(i, acc) ==
            LET key   == String(i)
                colon == Skip(key.next)
                v     == Value(colon + 1)
                after == Skip(v.next)
                found == Append(acc, <<key.val, [kind |-> v.kind, val |-> v.val]>>)
            IN  IF ~key.ok \/ ~Is(colon, ":") THEN Fail
                ELSE IF ~v.ok THEN Fail
                ELSE IF Is(after, "}") THEN Done("obj", found, after + 1)
                ELSE IF Is(after, ",") THEN Members(Skip(after + 1), found)
                ELSE Fail
        Elements(i, acc) ==
            LET v     == Value(i)
                after == Skip(v.next)
                found == Append(acc, [kind |-> v.kind, val |-> v.val])
            IN  IF ~v.ok THEN Fail
                ELSE IF Is(after, "]") THEN Done("arr", found, after + 1)
                ELSE IF Is(after, ",") THEN Elements(after + 1, found)
                ELSE Fail
        top == Value(1)
    IN  IF top.ok /\ Skip(top.next) > n THEN top ELSE Fail

\* valid_triples: the elements that hold a string under each of the three
\* keys, in order. `k in t` raises TypeError on a number, and t[k] raises on
\* a string that contains the key; other strings and arrays are dropped.
\* `parsed` says that json.loads gave a list, `wellFormed` which of its
\* elements are triples.
valid_triples(triples) ==
    LET Get(t, k) ==
            LET at == {i \in DOMAIN t.val : t.val[i][1] = k}
            IN  IF at = {} THEN [kind |-> "none", val |-> <<>>]
                ELSE t.val[CHOOSE i \in at : \A j \in at : j <= i][2]
        Valid(t) == /\ t.kind = "obj"
                    /\ \A k \in {KeySubject, KeyPredicate, KeyObject} :
                            Get(t, k).kind = "str"
        Raises(t) == \/ t.kind = "num"
                     \/ t.kind = "str" /\ Contains(t.val, KeySubject)
        kept == SelectSeq(triples, Valid)
        wellFormed == [i \in DOMAIN kept |->
                          Triple(Get(kept[i], KeySubject).val,
                                 Get(kept[i], KeyPredicate).val,
                                 Get(kept[i], KeyObject).val)]
    IN  IF \E i \in DOMAIN triples : Raises(triples[i])
        THEN [ok |-> FALSE, triples |-> <<>>, parsed |-> TRUE, wellFormed |-> wellFormed]
        ELSE [ok |-> TRUE, triples |-> wellFormed, parsed |-> TRUE,
              wellFormed |-> wellFormed]

\* the body of the try block for one attempt: an outcome is the request
\* raising (connection, status, body) or the model's response text
Attempt(outcome) ==
    LET raw_output == Strip(outcome.response)
        match      == ArraySearch(raw_output)
        spaced     == [i \in DOMAIN match.group |->
                          IF match.group[i] = "\n" THEN " " ELSE match.group[i]]
        json_str   == Strip(SelectSeq(spaced, LAMBDA c : c # "+"))
        triples    == json_loads(json_str)
        failed     == [ok |-> FALSE, triples |-> <<>>, parsed |-> FALSE,
                       wellFormed |-> <<>>]
    IN  IF outcome.kind = "error" \/ raw_output = <<>> \/ ~match.found THEN failed
        ELSE IF ~triples.ok \/ triples.kind # "arr" THEN failed
        ELSE valid_triples(triples.val)

\* an except block that sleeps after every failed attempt
BackoffAlways(attempt, max_retries, backoff_secs) ==
    [raised |-> backoff_secs * attempt < 0, sleeps |-> <<backoff_secs * attempt>>]

\* the except block after failed attempt `attempt`: the sleeps it makes;
\* time.sleep raises ValueError on a negative length
Backoff(attempt, max_retries, backoff_secs) ==
    IF attempt < max_retries
    THEN [raised |-> backoff_secs * attempt < 0, sleeps |-> <<backoff_secs * attempt>>]
    ELSE [raised |-> FALSE, sleeps |-> <<>>]

\* extract_triples_with_llm: attempts 1..max_retries, the first success
\* returned, [] after the last failure
extract_triples_with_llm(outcomes, max_retries, backoff_secs) ==
    LET Out(triples, attempts, sleeps, raised) ==
            [triples |-> triples, attempts |-> attempts, sleeps |-> sleeps,
             raised |-> raised]
        RECURSIVE Loop(_, _)
        Loop(attempt, sleeps) ==
            IF attempt > max_retries THEN Out(<<>>, attempt - 1, sleeps, FALSE)
            ELSE LET r == Attempt(outcomes[attempt])
                     b == Backoff(attempt, max_retries, backoff_secs)
                 IN  IF r.ok THEN Out(r.triples, attempt, sleeps, FALSE)
                     ELSE IF b.raised THEN Out(<<>>, attempt, sleeps, TRUE)
                     ELSE Loop(attempt + 1, sleeps \o b.sleeps)
    IN  Loop(1, <<>>)

\* What the model may answer: the array asked for by the prompt, as text
RenderArray(ts) ==
    LET Quoted(text) == <<"\"">> \o text \o <<"\"">>
        RenderTriple(t) ==
            <<"{", " ">> \o Quoted(KeySubject) \o <<":", " ">> \o Quoted(t.subject)
            \o <<",", " ">> \o Quoted(KeyPredicate) \o <<":", " ">> \o Quoted(t.predicate)
            \o <<",", " ">> \o Quoted(KeyObject) \o <<":", " ">> \o Quoted(t.object)
            \o <<" ", "}">>
        RECURSIVE Go(_)
        Go(i) == IF i > Len(ts) THEN <<>>
                 ELSE (IF i > 1 THEN <<",", "\n">> ELSE <<>>) \o RenderTriple(ts[i]) \o Go(i + 1)
    IN  <<"[", "\n">> \o Go(1) \o <<"\n", "]">>

TripleNasa == Triple(<<"N", "A", "S", "A">>, <<"l", "a", "u", "n", "c", "h", "e", "d">>, <<"A", "r", "t", "e", "m", "i", "s", " ", "I">>)
TriplePlus == Triple(<<"a", "+", "b">>, <<"i", "s">>, <<" ", "d">>)
Prose      == <<"H", "e", "r", "e", " ", "i", "t", " ", "i", "s", ":", "\n">>
WellFormed == {<<TripleNasa>>, <<TripleAD>>, <<TriplePlus>>, <<TripleAD, TripleAB2>>}

Reply(text) == [kind |-> "reply", response |-> text]
ExtractOutcomes ==
    {[kind |-> "error", response |-> <<>>],
     Reply(<<" ", "\n">>),
     Reply(Prose),
     Reply(<<"[", " ", "{", "\"", "s", "u", "b", "j", "e", "c", "t", "\"", " ", "\"", "a", "\"", "}", " ", "]">>),
     Reply(<<"[", "{", "\"", "s", "u", "b", "j", "e", "c", "t", "\"", ":", "\"", "a", "\"", ",", "\"", "p", "r", "e", "d", "i", "c", "a", "t", "e", "\"", ":", "\"", "r", "\"", ",", "\"", "o", "b", "j", "e", "c", "t", "\"", ":", "\"", "d", "\"", "}", ",", " ", "7", ",", " ", "{", "\"", "s", "u", "b", "j", "e", "c", "t", "\"", ":", "\"", "d", "\"", ",", "\"", "p", "r", "e", "d", "i", "c", "a", "t", "e", "\"", ":", "\"", "r", "\"", ",", "\"", "o", "b", "j", "e", "c", "t", "\"", ":", "\"", "b", "\"", "}", "]">>),
     Reply(<<"[", "{", "\"", "s", "u", "b", "j", "e", "c", "t", "\"", ":", "\"", "a", "\"", ",", "\"", "p", "r", "e", "d", "i", "c", "a", "t", "e", "\"", ":", "\"", "r", "\"", "}", ",", " ", "{", "\"", "s", "u", "b", "j", "e", "c", "t", "\"", ":", "\"", "a", "\"", ",", "\"", "p", "r", "e", "d", "i", "c", "a", "t", "e", "\"", ":", "7", ",", "\"", "o", "b", "j", "e", "c", "t", "\"", ":", "\"", "b", "\"", "}", ",", " ", "[", "\"", "x", "\"", "]", ",", " ", "{", "\"", "s", "u", "b", "j", "e", "c", "t", "\"", ":", "\"", "a", "\"", ",", "\"", "p", "r", "e", "d", "i", "c", "a", "t", "e", "\"", ":", "\"", "r", "\"", ",", "\"", "o", "b", "j", "e", "c", "t", "\"", ":", "\"", "b", "\"", ",", "\"", "o", "b", "j", "e", "c", "t", "\"", ":", "\"", "d", "\"", "}", "]", " ", "o", "k">>)}
    \cup {Reply(Prose \o RenderArray(ts)) : ts \in WellFormed}

-----------------------------------------------------------------------------
(* Initial state: nothing uploaded, empty ledger, empty graph              *)

NoRun == [scope |-> <<>>, repeat |-> FALSE, chunks |-> 0, skipped |-> {},
          recorded |-> {}, wroteSilver |-> FALSE, wroteGold |-> FALSE,
          upserts |-> 0]

NoAns == [scope |-> <<>>, question |-> <<>>, rewriteFailed |-> FALSE,
          query |-> <<>>, stage |-> "none", raised |-> FALSE, docs |-> <<>>,
          triples |-> EmptyBag, calls |-> 0, result |-> <<>>, histSame |-> TRUE,
          synthFailed |-> FALSE, passedSame |-> TRUE, scopeChanged |-> FALSE,
          sleeps |-> <<>>]

NoCall == [fn |-> "none"]

EmptyDir == [f \in Files |-> NoFile]
NoIndex == [stored |-> FALSE, chunks |-> <<>>]

Init ==
    /\ bronze = [s \in Scopes |-> EmptyDir]
    /\ ledger = <<>>
    /\ silver = [s \in Scopes |-> <<>>]
    /\ gold = [s \in Scopes |-> NoIndex]
    /\ entities = EmptyBag
    /\ relations = EmptyBag
    /\ run = NoRun
    /\ clean = [s \in Scopes |-> FALSE]
    /\ processed = {}
    /\ exists = [s \in Scopes |-> FALSE]
    /\ chat_history = <<>>
    /\ messages = <<>>
    /\ last_scope = <<>>
    /\ turns = 0
    /\ ans = NoAns
    /\ call = NoCall
    /\ procs = <<>>

-----------------------------------------------------------------------------
(* IngestionOrchestrator                                                   *)

\* save_chunks_to_silver: open(..., "w") replaces the archive
save_chunks_to_silver(sil, scope, chunks) == [sil EXCEPT ![scope] = chunks]

\* store_embeddings: FAISS.from_documents(chunks) builds a new index from
\* these chunks alone and save_local replaces the stored one; a failure is
\* caught and printed
store_embeddings(gld, scope, chunks, embedOK) ==
    IF chunks = <<>> \/ ~embedOK THEN gld
    ELSE [gld EXCEPT ![scope] = [stored |-> TRUE, chunks |-> chunks]]

\* the files of `dir` that is_already_ingested will not skip
NewFiles(scope, dir, led) ==
    {f \in Files : dir[f] # NoFile /\ ~is_already_ingested(led, scope, f, dir[f]).ret}

\* ingest(), and equally chunk_only(); embed_only(chunks); build_graph(chunks):
\* load, split, archive, embed, build the graph, over the raw directory `dir`.
Pipeline(scope, dir, repeat, watch) ==
    \E failing \in SUBSET NewFiles(scope, dir, ledger) :
    \E embedOK \in (IF failing = NewFiles(scope, dir, ledger) THEN {TRUE} ELSE BOOLEAN) :
    \E ld \in {load_documents(scope, dir, failing, ledger)} :
      LET chunks == split_documents(ld.docs)
          wrote  == chunks # <<>> /\ embedOK
      IN  \E responses \in [1..Len(chunks) -> RunResponses] :
          \E g \in {process_chunks(entities, relations, chunks, responses, scope)} :
                /\ ledger' = ld.ledger
                /\ silver' = IF ld.docs = <<>> THEN silver
                              ELSE save_chunks_to_silver(silver, scope, chunks)
                /\ gold' = store_embeddings(gold, scope, chunks, embedOK)
                /\ entities' = g.entities
                /\ relations' = g.relations
                /\ run' = IF watch # "run" THEN run
                           ELSE [scope |-> scope, repeat |-> repeat,
                                 chunks |-> Len(chunks),
                                 skipped |-> ld.skipped, recorded |-> ld.recorded,
                                 wroteSilver |-> ld.docs # <<>>, wroteGold |-> wrote,
                                 upserts |-> g.inserted]
                /\ clean' = [clean EXCEPT ![scope] = TRUE]
                /\ processed' = IF watch # "processed" THEN processed
                                 ELSE {x \in processed :
                                         ~(x[1] = scope /\ x[2] \in ld.recorded)}
                                      \cup
                                      {<<scope, c.source, c.text>> : c \in Range(chunks)}
                /\ exists' = [exists EXCEPT ![scope] = TRUE]
                /\ UNCHANGED <<chatVars, auxVars>>

\* the uploads a user can hand to the page: file name -> bytes, not empty
Uploads ==
    [scope \in Scopes |->
        {up \in UNION {[D -> Contents] : D \in SUBSET Files \ {{}}} :
            \A f \in DOMAIN up : <<scope, f, up[f]>> \in Uploadable}]

\* run_ingestion_ui, "Ingest Documents": pre-check, save the new files to the
\* raw directory, then the three stages
UploadAndIngest(scope, up, watch) ==
    LET already_ingested == check_ingested_status(ledger, scope, up)
        new_files == DOMAIN up \ already_ingested
        dir == [f \in Files |-> IF f \in new_files THEN up[f] ELSE bronze[scope][f]]
    IN  /\ new_files # {}
        /\ bronze' = [bronze EXCEPT ![scope] = dir]
        /\ Pipeline(scope, dir, clean[scope] /\ dir = bronze[scope], watch)

\* KnowledgeBaseIngestor(scope).ingest() on the raw directory as it is
Ingest(scope, watch) ==
    /\ bronze' = bronze
    /\ Pipeline(scope, bronze[scope], clean[scope], watch)

\* "Delete Knowledge Base": delete_scope (raw files, archive, index, ledger
\* entries, graph), then st.session_state.clear(). `call` keeps the ledger
\* entries that the scope had.
DeleteScope(scope_option) ==
    LET scope_name   == Strip(scope_option)
        prefix       == scope_name \o <<"/">>
        deleted_keys == {k \in DOMAIN ledger : StartsWith(k, prefix)}
        g            == DeleteGraph(entities, relations, scope_name)
    IN  /\ exists[scope_option]
        /\ bronze' = [s \in Scopes |-> IF s = scope_name THEN EmptyDir ELSE bronze[s]]
        /\ silver' = [s \in Scopes |-> IF s = scope_name THEN <<>> ELSE silver[s]]
        /\ gold' = [s \in Scopes |-> IF s = scope_name THEN NoIndex ELSE gold[s]]
        /\ exists' = [s \in Scopes |-> IF s = scope_name THEN FALSE ELSE exists[s]]
        /\ ledger' = Keep(ledger, DOMAIN ledger \ deleted_keys)
        /\ entities' = g.entities
        /\ relations' = g.relations
        /\ clean' = [s \in Scopes |-> IF s = scope_name THEN FALSE ELSE clean[s]]
        /\ processed' = {x \in processed : x[1] # scope_name}
        /\ chat_history' = <<>>
        /\ messages' = <<>>
        /\ last_scope' = <<>>
        /\ call' = [fn |-> "delete_scope", scope |-> scope_name,
                    led |-> Keep(ledger, deleted_keys)]
        /\ UNCHANGED <<run, turns, ans, procs>>

-----------------------------------------------------------------------------
(* KnowledgeBaseRetriever and the chat page                                *)

RewriteAttempts == 3
ChatAttempts    == 3
SearchK         == 3
TopK            == 5
GraphLimit      == 25

\* the value of an expression, worked out once
Only(S) == CHOOSE x \in S : TRUE

Flatten(ss) ==
    LET RECURSIVE Go(_)
        Go(i) == IF i > Len(ss) THEN <<>> ELSE ss[i] \o Go(i + 1)
    IN  Go(1)

\* what one model request sequence does: `fails` requests raise (connection,
\* HTTP status, malformed body), then one returns `reply`
Requests(outcome, attempts) ==
    IF outcome.fails >= attempts THEN attempts ELSE outcome.fails + 1

\* a retry loop whose wait doubles after every failed request
WaitsDoubling(outcome, attempts) ==
    [n \in 1..(IF outcome.fails >= attempts THEN attempts ELSE outcome.fails) |->
        15 * 2 ^ (n - 1)]

\* the except block of both retry loops: time.sleep((attempt + 1) * 1.5) after
\* each failed request, the last one included; in tenths of a second
Waits(outcome, attempts) ==
    [n \in 1..(IF outcome.fails >= attempts THEN attempts ELSE outcome.fails) |->
        15 * n]

\* _get_model_no_memory: up to three requests, the first reply stripped,
\* "" when every request failed
_get_model_no_memory(outcome) ==
    IF outcome.fails >= RewriteAttempts THEN <<>> ELSE Strip(outcome.reply)

\* rewrite_question
rewrite_question(outcome) == Strip(_get_model_no_memory(outcome))

Msg(role, text, triples, chunks) ==
    [role |-> role, content |-> [text |-> text, triples |-> triples, chunks |-> chunks]]

SystemPrompt == <<"S">>

\* a _get_model working on the caller's list itself (messages = history)
_get_model_in_place(prompt, system_prompt, history, outcome) ==
    LET m1 == IF \E i \in DOMAIN history : history[i].role = "system" THEN history
              ELSE <<Msg("system", system_prompt, EmptyBag, <<>>)>> \o history
        m2 == Append(m1, prompt)
    IN  IF outcome.fails < ChatAttempts
        THEN LET reply == Strip(outcome.reply)
             IN  [reply |-> reply,
                  history |-> Append(m2, Msg("assistant", reply, EmptyBag, <<>>)),
                  failed |-> FALSE, passed |-> m2]
        ELSE [reply |-> <<>>, history |-> m2, failed |-> TRUE, passed |-> m2]

\* _get_model: history copy, system prompt inserted once, the prompt appended;
\* up to three requests; the reply and messages + reply, or "" and messages.
\* `passed` is the caller's list as the call leaves it: history[:] is a copy
\* and messages + [...] a new list, so it is what it was.
_get_model(prompt, system_prompt, history, outcome) ==
    LET m0 == history
        m1 == IF \E i \in DOMAIN m0 : m0[i].role = "system" THEN m0
              ELSE <<Msg("system", system_prompt, EmptyBag, <<>>)>> \o m0
        m2 == Append(m1, prompt)
    IN  IF outcome.fails < ChatAttempts
        THEN LET reply == Strip(outcome.reply)
             IN  [reply |-> reply,
                  history |-> Append(m2, Msg("assistant", reply, EmptyBag, <<>>)),
                  failed |-> FALSE, passed |-> history]
        ELSE [reply |-> <<>>, history |-> m2, failed |-> TRUE, passed |-> history]

\* a retrieve_docs that answers a missing index with no documents
retrieve_docs_silent(gld, scope) ==
    LET chunks == gld[scope].chunks
        n      == IF Len(chunks) < SearchK THEN Len(chunks) ELSE SearchK
    IN  [raised |-> FALSE, docs |-> [i \in 1..n |-> chunks[i].text]]

\* retrieve_docs: FAISS.load_local raises without a stored index; otherwise
\* the k = 3 nearest chunk texts (all of them when the index holds at most 3)
retrieve_docs(gld, scope) ==
    IF ~gld[scope].stored THEN [raised |-> TRUE, docs |-> <<>>]
    ELSE LET chunks == gld[scope].chunks
             n      == IF Len(chunks) < SearchK THEN Len(chunks) ELSE SearchK
         IN  [raised |-> FALSE, docs |-> [i \in 1..n |-> chunks[i].text]]

\* TfidfVectorizer(stop_words="english"): lower-cased tokens of two or more
\* word characters, English stop words removed
NonWordChars == {" ", "\n", "\t", ".", ",", "?", "/", "#"}
StopWords == {<<"t", "h", "e">>, <<"o", "f">>}

\* the spans of the tokens of a text: maximal runs of two or more word
\* characters
TokenSpans(text) ==
    LET IsWord(i) == text[i] \notin NonWordChars
    IN  {p \in (DOMAIN text) \X (DOMAIN text) :
            /\ p[1] < p[2]
            /\ \A k \in p[1]..p[2] : IsWord(k)
            /\ (p[1] = 1 \/ ~IsWord(p[1] - 1))
            /\ (p[2] = Len(text) \/ ~IsWord(p[2] + 1))}

Tokenize(text) == {SubSeq(text, p[1], p[2]) : p \in TokenSpans(text)}

Vocabulary(texts) ==
    UNION {Tokenize(Lower(texts[i])) : i \in DOMAIN texts} \ StopWords

\* raw count of a term in one text
TermCount(t, text) ==
    LET low == Lower(text)
    IN  Cardinality({p \in TokenSpans(low) : SubSeq(low, p[1], p[2]) = t})

\* the order of get_feature_names_out(): terms sorted by code point
CharOrder == <<"0", "1", "2", "3", "4", "5", "6", "7", "8", "9",
               "a", "b", "c", "d", "e", "f", "g", "h", "i", "j", "k", "l", "m",
               "n", "o", "p", "q", "r", "s", "t", "u", "v", "w", "x", "y", "z">>
CharRank(c) == CHOOSE i \in DOMAIN CharOrder : CharOrder[i] = c

RECURSIVE TermBefore(_, _)
TermBefore(a, b) ==
    IF b = <<>> THEN FALSE
    ELSE IF a = <<>> THEN TRUE
    ELSE IF a[1] # b[1] THEN CharRank(a[1]) < CharRank(b[1])
    ELSE TermBefore(Tail(a), Tail(b))

RECURSIVE SortedTerms(_)
SortedTerms(V) ==
    IF V = {} THEN <<>>
    ELSE LET first == CHOOSE t \in V : \A u \in V \ {t} : TermBefore(t, u)
         IN  <<first>> \o SortedTerms(V \ {first})

\* a list, worked out element by element once
Listed(f) == f \o <<>>

RECURSIVE SeqSum(_)
SeqSum(s) == IF s = <<>> THEN 0 ELSE Head(s) + SeqSum(Tail(s))

\* scores are kept in thousandths;
\* 1000 * ln(num / den) for the ratios (1 + n) / (1 + df) of up to four texts
LnMilli(num, den) ==
    IF num = den THEN 0
    ELSE IF <<num, den>> = <<3, 2>> THEN 405
    ELSE IF <<num, den>> = <<4, 2>> THEN 693
    ELSE IF <<num, den>> = <<4, 3>> THEN 288
    ELSE IF <<num, den>> = <<5, 2>> THEN 916
    ELSE IF <<num, den>> = <<5, 3>> THEN 511
    ELSE 223

\* smoothed inverse document frequency: ln((1 + n) / (1 + df)) + 1
Idf(n, df) == LnMilli(1 + n, 1 + df) + 1000

RECURSIVE SqrtBetween(_, _, _)
SqrtBetween(x, lo, hi) ==
    IF lo >= hi THEN lo
    ELSE LET mid == (lo + hi + 1) \div 2
         IN  IF mid * mid <= x THEN SqrtBetween(x, mid, hi)
             ELSE SqrtBetween(x, lo, mid - 1)

\* fit_transform and X.toarray().sum(axis=0): per feature, the tf * idf
\* cells of the rows, each row scaled to unit length, summed across the texts
Scores(features, texts) ==
    LET n      == Len(texts)
        F      == DOMAIN features
        counts == Listed([i \in 1..n |->
                      Listed([j \in F |-> TermCount(features[j], texts[i])])])
        idf    == Listed([j \in F |->
                      Idf(n, Cardinality({i \in 1..n : counts[i][j] > 0}))])
        weight == Listed([i \in 1..n |-> Listed([j \in F |-> counts[i][j] * idf[j]])])
        norm   == Listed([i \in 1..n |->
                      SqrtBetween(SeqSum(Listed([j \in F |-> weight[i][j] * weight[i][j]])),
                                  0, SeqSum(weight[i]))])
    IN  Listed([j \in F |->
            SeqSum(Listed([i \in 1..n |->
                IF norm[i] = 0 THEN 0 ELSE (weight[i][j] * 1000) \div norm[i]]))])

\* extract_keywords: fit_transform raises ValueError("empty vocabulary")
\* when no document holds a term; otherwise the terms in feature order, sorted
\* by descending score (sorted() is stable), the first top_k, lower-cased.
\* (max_features = 1000 drops nothing from vocabularies this small.)
extract_keywords(texts, top_k) ==
    LET V        == Vocabulary(texts)
        features == SortedTerms(V)
        scores   == Scores(features, texts)
        Ahead(u, j)  == scores[u] > scores[j] \/ (scores[u] = scores[j] /\ u < j)
        Place(j)     == 1 + Cardinality({u \in DOMAIN features : Ahead(u, j)})
        sorted_terms == Listed([i \in DOMAIN features |->
                            features[CHOOSE j \in DOMAIN features : Place(j) = i]])
        n == IF top_k < Len(features) THEN top_k ELSE Len(features)
    IN  IF V = {} THEN [raised |-> TRUE, terms |-> <<>>]
        ELSE [raised |-> FALSE, terms |-> Listed([i \in 1..n |-> Lower(sorted_terms[i])])]

\* a query that does not look at the scope of a relationship
GraphQueriesAnyScope(rels, keywords, scope) ==
    LET Hits(r) == Cardinality({kw \in keywords :
                        Contains(Lower(r.s), kw) \/ Contains(Lower(r.o), kw)})
        matched == {r \in BagToSet(rels) : Hits(r) > 0}
    IN  {[x \in {[Subject |-> r.s, Predicate |-> r.type, Object |-> r.o] : r \in matched}
            |-> 1]}

\* the Cypher query: one row per keyword and per relationship of the scope
\* whose subject or object name contains the keyword, at most 25 rows. LIMIT
\* without ORDER BY keeps any 25 of the rows: the results it can give.
GraphQueries(rels, keywords, scope) ==
    LET Hits(r) == Cardinality({kw \in keywords :
                        Contains(Lower(r.s), kw) \/ Contains(Lower(r.o), kw)})
        matched == {r \in BagToSet(rels) : r.scope = scope /\ Hits(r) > 0}
        Row(r)  == [Subject |-> r.s, Predicate |-> r.type, Object |-> r.o]
        rows    == [x \in {Row(r) : r \in matched} |->
                        LET from == {r \in matched : Row(r) = x}
                            r    == CHOOSE r \in from : TRUE
                        IN  rels[r] * Hits(r)]
        RECURSIVE Limit(_)
        Limit(bags) ==
            IF \A b \in bags : BagCardinality(b) <= GraphLimit THEN bags
            ELSE Limit(UNION {IF BagCardinality(b) <= GraphLimit THEN {b}
                              ELSE {b (-) SetToBag({x}) : x \in BagToSet(b)} :
                              b \in bags})
    IN  Limit({rows})

GraphQuery(rels, keywords, scope) == Only(GraphQueries(rels, keywords, scope))

\* clean_text_chunk: symbols removed, runs of newlines and of whitespace
\* collapsed, stripped
clean_text_chunk(text) ==
    LET Symbols == {"?", "#", "/"}
        t1 == SelectSeq(text, LAMBDA c : c \notin Symbols)
        t2 == Flatten([i \in DOMAIN t1 |->
                  IF t1[i] = "\n" /\ i > 1 /\ t1[i - 1] = "\n" THEN <<>> ELSE <<t1[i]>>])
        InRun(i) == \/ i > 1 /\ IsSpace(t2[i - 1])
                    \/ i < Len(t2) /\ IsSpace(t2[i + 1])
        t3 == Flatten([i \in DOMAIN t2 |->
                  IF ~IsSpace(t2[i]) \/ ~InRun(i) THEN <<t2[i]>>
                  ELSE IF i > 1 /\ IsSpace(t2[i - 1]) THEN <<>> ELSE <<" ">>])
    IN  Strip(t3)

NoInfoMessage == <<"S", "o", "r", "r", "y", ".">>

\* answer_with_keywords_and_chunks: rewrite, vector search, keywords, graph
\* query, the fixed message when both came back empty, else the model's answer
answer_with_keywords_and_chunks(question, scope, rw, syn, history, gld, rels) ==
    LET rewritten_question == rewrite_question(rw)
        calls1 == Requests(rw, RewriteAttempts)
        Out(stage, raised, docs, triples, calls, result, m) ==
            [query |-> rewritten_question, stage |-> stage, raised |-> raised,
             docs |-> docs, triples |-> triples, calls |-> calls,
             result |-> result, history |-> m.history,
             synthFailed |-> m.failed, passed |-> m.passed,
             sleeps |-> Listed(Waits(rw, RewriteAttempts)
                               \o (IF stage = "synthesis"
                                    THEN Waits(syn, ChatAttempts) ELSE <<>>))]
        none == [history |-> history, failed |-> FALSE, passed |-> history]
        Synthesis(text_chunks, graph_triples, user_prompt) ==
            Only({Out("synthesis", FALSE, text_chunks, graph_triples,
                      calls1 + Requests(syn, ChatAttempts), Strip(m.reply), m) :
                  m \in {_get_model(user_prompt, SystemPrompt, history, syn)}})
        Combine(text_chunks, graph_triples) ==
            IF graph_triples = EmptyBag /\ text_chunks = <<>>
            THEN Out("graph", FALSE, text_chunks, graph_triples, calls1,
                     NoInfoMessage, none)
            ELSE Synthesis(text_chunks, graph_triples,
                     Msg("user", rewritten_question, graph_triples,
                         [i \in DOMAIN text_chunks |->
                             clean_text_chunk(text_chunks[i])]))
        Graph(text_chunks, kw) ==
            IF kw.raised
            THEN Out("keywords", TRUE, text_chunks, EmptyBag, calls1, <<>>, none)
            ELSE Only({Combine(text_chunks, graph_triples) :
                       graph_triples \in {GraphQuery(rels, Range(kw.terms), scope)}})
        Keywords(found) ==
            IF found.raised
            THEN Out("search", TRUE, <<>>, EmptyBag, calls1, <<>>, none)
            ELSE Only({Graph(found.docs, kw) :
                       kw \in {extract_keywords(found.docs, TopK)}})
    IN  Only({Keywords(found) : found \in {retrieve_docs(gld, scope)}})

\* what the page shows for a raised exception: "Error: <e>"
ErrorText(stage) ==
    <<"E", ":">> \o (IF stage = "search" THEN <<"i", "n", "d", "e", "x">>
                     ELSE <<"v", "o", "c", "a", "b">>)

\* run_chat_ui with a prompt, for the knowledge base picked on the home page
Ask(scope, prompt, rw, syn) ==
    /\ turns < MaxTurns
    /\ exists[scope]
    /\ \E a \in {answer_with_keywords_and_chunks(prompt, scope, rw, syn,
                                                  chat_history, gold, relations)} :
         LET shown  == IF last_scope # scope THEN <<>> ELSE messages
             answer == IF a.raised THEN ErrorText(a.stage) ELSE a.result
         IN  /\ messages' = shown \o <<[role |-> "user", content |-> prompt],
                                       [role |-> "assistant", content |-> answer]>>
             /\ last_scope' = scope
             /\ chat_history' = a.history
             /\ turns' = turns + 1
             /\ ans' = [scope |-> scope, question |-> prompt,
                        rewriteFailed |-> rw.fails >= RewriteAttempts,
                        query |-> a.query, stage |-> a.stage, raised |-> a.raised,
                        docs |-> a.docs, triples |-> a.triples, calls |-> a.calls,
                        result |-> a.result, histSame |-> a.history = chat_history,
                        synthFailed |-> a.synthFailed,
                        passedSame |-> a.passed = chat_history,
                        scopeChanged |-> last_scope # <<>> /\ last_scope # scope,
                        sleeps |-> a.sleeps]
    /\ UNCHANGED <<bronze, ledger, silver, gold, entities, relations,
                   run, clean, processed, exists>>
    /\ UNCHANGED auxVars

\* Ingestion, observing what each run did (`run`).
Next ==
    \/ \E scope \in Scopes : \E up \in Uploads[scope] : UploadAndIngest(scope, up, "run")
    \/ \E scope \in Scopes : Ingest(scope, "run")
    \/ \E scope \in Scopes : DeleteScope(scope)

Spec == Init /\ [][Next]_vars

\* Ingestion, observing which contents were processed (`processed`).
NextLedger ==
    \/ \E scope \in Scopes : \E up \in Uploads[scope] :
            UploadAndIngest(scope, up, "processed")
    \/ \E scope \in Scopes : Ingest(scope, "processed")
    \/ \E scope \in Scopes : DeleteScope(scope)

SpecLedger == Init /\ [][NextLedger]_vars

\* GraphWriter on its own: build_graph(chunks) for any chunks and any
\* extractor output, and delete_scope.
BuildGraph(scope, chunks, responses) ==
    LET g == process_chunks(entities, relations, chunks, responses, scope)
    IN  /\ entities' = g.entities
        /\ relations' = g.relations
        /\ exists' = [exists EXCEPT ![scope] = TRUE]
        /\ UNCHANGED <<bronze, ledger, silver, gold, run, clean, processed>>
        /\ UNCHANGED <<chatVars, auxVars>>

NextGraph ==
    \/ \E scope \in Scopes, chunks \in GraphChunks, out \in GraphResponses :
            BuildGraph(scope, chunks, <<out>>)
    \/ \E scope \in Scopes : DeleteScope(scope)

SpecGraph == Init /\ [][NextGraph]_vars

\* What the chat is asked, what the models reply, and what it reads

Question1 == <<"a", "b", "?">>
Questions == {Question1}

RewriteOutcomes ==
    {[fails |-> k, reply |-> r] : k \in {0, RewriteAttempts - 1},
                                  r \in {<<"c", "d", " ">>, <<" ">>}}
    \cup {[fails |-> RewriteAttempts, reply |-> <<>>]}

SynthOutcomes ==
    {[fails |-> k, reply |-> r] : k \in {0, ChatAttempts - 1},
                                  r \in {<<"o", "k", "\n">>, <<" ">>}}
    \cup {[fails |-> ChatAttempts, reply |-> <<>>]}

TextAB   == <<"A", "b", " ", " ", "t", "h", "e">>
TextXY   == <<"x", "y", ".">>
TextStop == <<"t", "h", "e">>

EmptyIndex == [stored |-> TRUE, chunks |-> <<>>]
IndexOf(texts) ==
    [stored |-> TRUE, chunks |-> [i \in DOMAIN texts |-> Chunk(FileA, texts[i])]]
ChatIndexes == {NoIndex, EmptyIndex, IndexOf(<<TextStop>>), IndexOf(<<TextAB>>),
                IndexOf(<<TextXY, TextAB>>)}

NameAB == <<"a", "b">>
NameCD == <<"c", "d">>
GraphOf(scope) ==
    [entities  |-> SetToBag({Node(NameAB, scope), Node(NameCD, scope)}),
     relations |-> SetToBag({Edge(NameAB, <<"r">>, scope, NameCD)})]
ChatGraphs == {[entities |-> EmptyBag, relations |-> EmptyBag],
               GraphOf(KB), GraphOf(KB2)}

\* The retriever on its own: it reads the index, the graph and the directory
\* listing, which ingestion left in one of these states.
InitChat ==
    /\ bronze = [s \in Scopes |-> EmptyDir]
    /\ ledger = <<>>
    /\ silver = [s \in Scopes |-> <<>>]
    /\ \E ix \in ChatIndexes :
         gold = [s \in Scopes |-> IF s = KB THEN ix ELSE IndexOf(<<TextAB>>)]
    /\ \E g \in ChatGraphs : entities = g.entities /\ relations = g.relations
    /\ run = NoRun
    /\ clean = [s \in Scopes |-> TRUE]
    /\ processed = {}
    /\ exists = [s \in Scopes |-> TRUE]
    /\ chat_history = <<>>
    /\ messages = <<>>
    /\ last_scope = <<>>
    /\ turns = 0
    /\ ans = NoAns
    /\ call = NoCall
    /\ procs = <<>>

NextChat ==
    \E scope \in Scopes, prompt \in Questions :
    \E rw \in RewriteOutcomes, syn \in SynthOutcomes :
        Ask(scope, prompt, rw, syn)

SpecChat == InitChat /\ [][NextChat]_vars

\* extract_keywords on its own, one call for each list of texts and top_k
KeywordTexts ==
    {TextAB, TextXY, TextStop,
     <<"c", "d", " ", "a", "b", "\n", "c", "d">>, <<"X", "y", " ", "a", "b">>}

Keywords(texts, top_k) ==
    /\ call = NoCall
    /\ call' = [fn |-> "extract_keywords", texts |-> texts, top_k |-> top_k,
                out |-> extract_keywords(texts, top_k)]
    /\ UNCHANGED <<bronze, ledger, silver, gold, entities, relations,
                   run, clean, processed, exists, chatVars, procs>>

NextKeywords ==
    \E texts \in SeqsUpTo(KeywordTexts, MaxTexts) \ {<<>>}, top_k \in 0..MaxTopK :
        Keywords(texts, top_k)

SpecKeywords == Init /\ [][NextKeywords]_vars

\* extract_triples_with_llm on its own, one call for each sequence of attempt
\* outcomes
BackoffSecs == {0, 1, 2}

Extract(outcomes, max_retries, backoff_secs) ==
    /\ call = NoCall
    /\ call' = [fn |-> "extract_triples_with_llm", outcomes |-> outcomes,
                max_retries |-> max_retries, backoff_secs |-> backoff_secs,
                out |-> extract_triples_with_llm(outcomes, max_retries, backoff_secs)]
    /\ UNCHANGED <<bronze, ledger, silver, gold, entities, relations,
                   run, clean, processed, exists, chatVars, procs>>

NextExtract ==
    \E max_retries \in 0..MaxRetries, backoff_secs \in BackoffSecs :
    \E outcomes \in [1..max_retries -> ExtractOutcomes] :
        Extract(outcomes, max_retries, backoff_secs)

SpecExtract == Init /\ [][NextExtract]_vars

\* load_documents on its own, one call for each raw directory, set of failing
\* loaders and ledger
LoadDirs == [{FileA, FileB, FileC} -> {NoFile, Bytes1, Unreadable}]
LoadLedgers == {<<>>, Put(<<>>, ScopedKey(KB, FileA), get_file_hash(Bytes1))}

Load(scope, dir, failing, led) ==
    /\ call = NoCall
    /\ call' = [fn |-> "load_documents", scope |-> scope, dir |-> dir,
                failing |-> failing, led |-> led,
                out |-> load_documents(scope, dir, failing, led)]
    /\ UNCHANGED <<bronze, ledger, silver, gold, entities, relations,
                   run, clean, processed, exists, chatVars, procs>>

NextLoad ==
    \E scope \in Scopes, dir \in LoadDirs, failing \in SUBSET Files, led \in LoadLedgers :
        Load(scope, dir, failing, led)

SpecLoad == Init /\ [][NextLoad]_vars

\* The three stages behind "Ingest Documents", with what each stage can meet.
\* The uploads include a file without text: an empty file, a scanned page.
StageUploads == UNION {[D -> {Bytes1, <<" ">>}] : D \in SUBSET Files \ {{}}}

\* build_graph(chunks) when the graph store is "ok", when
\* GraphDatabase.driver(...) raises in GraphBuilderLLM() ("driver", before
\* the try block), or when session.run raises in insert_triple ("session",
\* inside it): [entities, relations, inserted, extractions, failed,
\* raised]; `failed` says that the graph stage met its failure, `raised`
\* that the exception left build_graph.
build_graph(ents, rels, chunks, responses, scope, conn) ==
    LET g      == process_chunks(ents, rels, chunks, responses, scope)
        none   == [entities |-> ents, relations |-> rels, inserted |-> 0]
        Text(i) == Strip(chunks[i].text) # <<>>
        Inserts(i) == Text(i) /\ InsertAll(none, responses[i], scope).inserted > 0
        upTo   == IF \E i \in DOMAIN chunks : Inserts(i)
                  THEN CHOOSE i \in DOMAIN chunks :
                          Inserts(i) /\ \A j \in 1..(i - 1) : ~Inserts(j)
                  ELSE Len(chunks)
        Out(r, n, failed, raised) ==
            [entities |-> r.entities, relations |-> r.relations,
             inserted |-> r.inserted, extractions |-> n, failed |-> failed,
             raised |-> raised]
    IN  IF conn = "driver" THEN Out(none, 0, TRUE, TRUE)
        ELSE IF conn = "session" /\ g.inserted > 0
        THEN Out(none, Cardinality({i \in 1..upTo : Text(i)}), TRUE, FALSE)
        ELSE Out(g, Cardinality({i \in DOMAIN chunks : Text(i)}), FALSE, FALSE)

\* run_ingestion_ui, "Ingest Documents": the pre-check, the new files saved,
\* chunk_only, embed_only, build_graph inside one try block, and the message
\* shown at the end (`call`). The embedding stage is "ok", or
\* HuggingFaceEmbeddings(...) raises ("model", before the try block of
\* store_embeddings), or FAISS.from_documents / save_local raises ("index",
\* inside it).
IngestDocuments(scope, up) ==
    LET already_ingested == check_ingested_status(ledger, scope, up)
        new_files == DOMAIN up \ already_ingested
        dir == [f \in Files |-> IF f \in new_files THEN up[f] ELSE bronze[scope][f]]
    IN  /\ new_files # {}
        /\ \E failing \in SUBSET new_files, embed \in {"ok", "model", "index"},
              conn \in {"ok", "driver", "session"} :
           \E ld \in {load_documents(scope, dir, failing, ledger)} :
             LET chunks == split_documents(ld.docs)
                 embedRaised == chunks # <<>> /\ embed = "model"
                 skip == [entities |-> entities, relations |-> relations,
                          inserted |-> 0, extractions |-> 0, failed |-> FALSE,
                          raised |-> FALSE]
             IN  \E responses \in [1..Len(chunks) -> RunResponses] :
                 \E g \in {IF embedRaised THEN skip
                            ELSE build_graph(entities, relations, chunks, responses,
                                             scope, conn)} :
                    /\ bronze' = [bronze EXCEPT ![scope] = dir]
                    /\ ledger' = ld.ledger
                    /\ silver' = IF ld.docs = <<>> THEN silver
                                  ELSE save_chunks_to_silver(silver, scope, chunks)
                    /\ gold' = store_embeddings(gold, scope, chunks, embed = "ok")
                    /\ entities' = g.entities
                    /\ relations' = g.relations
                    /\ call' = [fn |-> "run_ingestion_ui", scope |-> scope,
                                chunks |-> chunks,
                                embedFailed |-> chunks # <<>> /\ embed # "ok",
                                graphFailed |-> g.failed,
                                modelCalls |-> (IF chunks # <<>> THEN 1 ELSE 0)
                                               + g.extractions,
                                reported |-> IF embedRaised \/ g.raised
                                             THEN "failed" ELSE "success"]
                    /\ clean' = [clean EXCEPT ![scope] = TRUE]
                    /\ exists' = [exists EXCEPT ![scope] = TRUE]
                    /\ UNCHANGED <<run, processed, chatVars, procs>>

NextStages == \E up \in StageUploads : IngestDocuments(KB, up)

SpecStages == Init /\ [][NextStages]_vars

\* The graph query on its own, over graphs as insert_triple leaves them
\* (lower-case names), one of them with more matches than the limit, and
\* over keywords as extract_keywords returns them.
QueryGraphs ==
    LET few  == {Edge(NameAB, <<"r">>, KB, NameCD), Edge(<<"x", "a", "b">>, <<"r">>, KB2, NameCD),
                 Edge(NameCD, <<"r">>, KB, <<"e">>), Edge(<<"e">>, <<"i", "s">>, KB, <<"f">>)}
        many == {Edge(NameAB, <<"r", c>>, KB, NameCD) :
                    c \in {"a", "b", "c", "d", "e", "f", "g", "h", "i", "j", "k", "l", "m"}}
    IN  {SetToBag(S) : S \in SUBSET few} \cup {SetToBag(many \cup S) : S \in SUBSET few}

RunCypher(rels, keywords, scope) ==
    /\ call = NoCall
    /\ \E out \in GraphQueries(rels, keywords, scope) :
          call' = [fn |-> "_run_cypher", rels |-> rels, keywords |-> keywords,
                   scope |-> scope, out |-> out]
    /\ UNCHANGED <<bronze, ledger, silver, gold, entities, relations,
                   run, clean, processed, exists, chatVars, procs>>

NextQuery ==
    \E rels \in QueryGraphs, scope \in Scopes :
    \E keywords \in SUBSET {NameAB, NameCD, <<"z", "z">>} \ {{}} :
        RunCypher(rels, keywords, scope)

SpecQuery == Init /\ [][NextQuery]_vars

\* delete_scope on its own, over the names a knowledge base can be given in
\* "Enter new name:" (the text is used as typed) and is listed under by
\* get_existing_scopes.
ScopeNames == {KB, KB2, <<" ", "k", "b">>}

\* delete_scope(scope_name) on a store [bronze, silver, gold, ledger,
\* entities, relations]: the store after it, and the count it returns
delete_scope(store, scope_option) ==
    LET scope_name   == Strip(scope_option)
        prefix       == scope_name \o <<"/">>
        deleted_keys == {k \in DOMAIN store.ledger : StartsWith(k, prefix)}
        g            == DeleteGraph(store.entities, store.relations, scope_name)
        Rm(layer, gone) == [n \in DOMAIN layer |-> IF n = scope_name THEN gone ELSE layer[n]]
    IN  [bronze |-> Rm(store.bronze, EmptyDir),
         silver |-> Rm(store.silver, <<>>),
         gold   |-> Rm(store.gold, NoIndex),
         ledger |-> Keep(store.ledger, DOMAIN store.ledger \ deleted_keys),
         entities |-> g.entities, relations |-> g.relations,
         ret |-> Cardinality(deleted_keys)]

DeleteCall(store, scope_option) ==
    /\ call = NoCall
    /\ call' = [fn |-> "delete_scope", store |-> store, scope |-> scope_option,
                out |-> delete_scope(store, scope_option)]
    /\ UNCHANGED <<bronze, ledger, silver, gold, entities, relations,
                   run, clean, processed, exists, chatVars, procs>>

\* the stores that ingestion leaves: `ing` are the files ingested under each
\* name, each with one chunk and one relationship
NextDelete ==
    \E ing \in [ScopeNames -> SUBSET Files], scope_option \in ScopeNames :
      LET Dir(n)    == [f \in Files |-> IF f \in ing[n] THEN Bytes1 ELSE NoFile]
          Chunks(n) == split_documents(load_documents(n, Dir(n), {}, <<>>).docs)
          used      == {n \in ScopeNames : ing[n] # {}}
          led       == [k \in {ScopedKey(n, f) : f \in Files, n \in ScopeNames} |-> get_file_hash(Bytes1)]
          store     == [bronze |-> [n \in ScopeNames |-> Dir(n)],
                        silver |-> [n \in ScopeNames |-> Chunks(n)],
                        gold   |-> [n \in ScopeNames |->
                                      store_embeddings([x \in {n} |-> NoIndex], n,
                                                       Chunks(n), TRUE)[n]],
                        ledger |-> Keep(led, UNION {{ScopedKey(n, f) : f \in ing[n]} :
                                                 n \in ScopeNames}),
                        entities  |-> SetToBag({Node(<<"e">> \o n, n) : n \in used}
                                               \cup {Node(NameCD, n) : n \in used \cap {KB}}),
                        relations |-> SetToBag({Edge(<<"e">> \o n, <<"r">>, n, NameCD) :
                                                    n \in used})]
      IN  scope_option \in used /\ DeleteCall(store, scope_option)

SpecDelete == Init /\ [][NextDelete]_vars

\* Two ingestion runs at once (two sessions of the page, or the page and a
\* script). The ledger check is a read of the whole file and, later, a write
\* of the whole file, with no lock: each is one step of its run.
Runs == {1, 2}
RunDirs == {[f \in Files |-> IF f = FileA THEN Bytes1 ELSE NoFile],
            [f \in Files |-> Bytes1]}

InitConcurrent ==
    /\ bronze \in [Scopes -> RunDirs]
    /\ ledger = <<>>
    /\ silver = [s \in Scopes |-> <<>>]
    /\ gold = [s \in Scopes |-> NoIndex]
    /\ entities = EmptyBag
    /\ relations = EmptyBag
    /\ run = NoRun
    /\ clean = [s \in Scopes |-> FALSE]
    /\ processed = {}
    /\ exists = [s \in Scopes |-> TRUE]
    /\ chat_history = <<>>
    /\ messages = <<>>
    /\ last_scope = <<>>
    /\ turns = 0
    /\ ans = NoAns
    /\ call = NoCall
    /\ \E scopes \in [Runs -> Scopes] :
         procs = [p \in Runs |->
                    [scope |-> scopes[p], pc |-> "check",
                     todo |-> SelectSeq(GlobOrder,
                                 LAMBDA f : /\ f \in Files
                                            /\ bronze[scopes[p]][f] # NoFile),
                     ingested |-> <<>>, docs |-> <<>>, wrote |-> {}]]

\* the file of the loop in load_documents is done with
NextFile(r, docs, wrote) ==
    [r EXCEPT !.todo = Tail(@), !.docs = docs, !.wrote = wrote, !.ingested = <<>>,
              !.pc = IF Tail(r.todo) = <<>> THEN "loaded" ELSE "check"]

\* is_already_ingested up to the comparison: json.load of the ledger file;
\* True is returned without a write, otherwise the key is set in the copy
CheckRead(p) ==
    LET r    == procs[p]
        name == Head(r.todo)
        chk  == is_already_ingested(ledger, r.scope, name, bronze[r.scope][name])
    IN  /\ r.pc = "check"
        /\ procs' = [procs EXCEPT ![p] =
                        IF chk.ret THEN NextFile(r, r.docs, r.wrote)
                        ELSE [r EXCEPT !.pc = "write", !.ingested = chk.ledger]]
        /\ UNCHANGED <<bronze, ledger, silver, gold, entities, relations,
                       run, clean, processed, exists, chatVars, call>>

\* is_already_ingested from open(HASH_TRACK_FILE, "w"): the copy replaces the
\* file; False is returned and load_documents loads the file
CheckWrite(p) ==
    LET r    == procs[p]
        name == Head(r.todo)
    IN  /\ r.pc = "write"
        /\ ledger' = r.ingested
        /\ procs' = [procs EXCEPT ![p] =
                        NextFile(r, Append(r.docs, Chunk(name, bronze[r.scope][name])),
                                 r.wrote \cup {ScopedKey(r.scope, name)})]
        /\ UNCHANGED <<bronze, silver, gold, entities, relations,
                       run, clean, processed, exists, chatVars, call>>

\* the rest of the run: split, archive, embed, build the graph
Finish(p) ==
    LET r      == procs[p]
        chunks == split_documents(r.docs)
    IN  /\ r.pc = "loaded"
        /\ \E responses \in [1..Len(chunks) -> RunResponses] :
           \E g \in {process_chunks(entities, relations, chunks, responses, r.scope)} :
                /\ entities' = g.entities
                /\ relations' = g.relations
        /\ silver' = IF r.docs = <<>> THEN silver
                      ELSE save_chunks_to_silver(silver, r.scope, chunks)
        /\ gold' = store_embeddings(gold, r.scope, chunks, TRUE)
        /\ clean' = [clean EXCEPT ![r.scope] = TRUE]
        /\ procs' = [procs EXCEPT ![p].pc = "done"]
        /\ UNCHANGED <<bronze, ledger, run, processed, exists, chatVars, call>>

NextConcurrent ==
    \E p \in Runs : CheckRead(p) \/ CheckWrite(p) \/ Finish(p)

SpecConcurrent == InitConcurrent /\ [][NextConcurrent]_vars


-----------------------------------------------------------------------------
(* Properties                                                              *)

Present(scope) == {f \in Files : bronze[scope][f] # NoFile}
KeysOf(scope) == {k \in DOMAIN ledger : StartsWith(k, scope \o <<"/">>)}

\* C1: a pipeline run over raw files that are byte-identical to those of the
\* scope's previous run yields zero chunks, writes neither the chunk archive
\* nor the vector index, records no digest and upserts no triple; and after a
\* run the ledger holds exactly one entry per file of the scope, its digest.
C1_SecondRunIsNoOp ==
    /\ run.repeat =>
          /\ run.chunks = 0
          /\ ~run.wroteSilver
          /\ ~run.wroteGold
          /\ run.upserts = 0
          /\ run.recorded = {}
    /\ \A s \in Scopes :
          clean[s] =>
            /\ KeysOf(s) = {ScopedKey(s, f) : f \in Present(s)}
            /\ \A f \in Present(s) :
                  ledger[ScopedKey(s, f)] = get_file_hash(bronze[s][f])

\* a second run over unchanged files has happened and skipped a file
C1_Witness ==
    /\ run.repeat
    /\ run.skipped # {}
    /\ Cardinality(KeysOf(run.scope)) = 2

\* C2: is_already_ingested returns True and leaves the ledger as it is exactly
\* when the ledger maps scope/filename to the digest of the content; otherwise
\* it returns False, sets that one key to the new digest and changes no other
\* entry.
C2_LedgerCheck ==
    \A s \in Scopes, f \in Files, c \in Contents :
      LET k == ScopedKey(s, f)
          r == is_already_ingested(ledger, s, f, c)
      IN  IF k \in DOMAIN ledger /\ ledger[k] = get_file_hash(c)
          THEN r.ret /\ r.ledger = ledger
          ELSE /\ ~r.ret
               /\ DOMAIN r.ledger = DOMAIN ledger \cup {k}
               /\ r.ledger[k] = get_file_hash(c)
               /\ \A j \in DOMAIN ledger \ {k} : r.ledger[j] = ledger[j]

\* one run skipped a file whose digest was on record and recorded a changed
\* one, with entries of both scopes in the ledger
C2_Witness ==
    /\ run.skipped # {}
    /\ run.recorded # {}
    /\ KeysOf(KB) # {}
    /\ KeysOf(KB2) # {}
    /\ \E f \in run.recorded :
          ledger[ScopedKey(run.scope, f)] = get_file_hash(Bytes2)

\* C3: the ledger maps scope/filename to a digest if and only if
\* those bytes were loaded and chunked for that scope/filename; no record
\* exists for a file whose load failed.
C3_RecordIffProcessed ==
    \A s \in Scopes, f \in Files, c \in Contents :
      (/\ ScopedKey(s, f) \in DOMAIN ledger
       /\ ledger[ScopedKey(s, f)] = get_file_hash(c))
      <=> <<s, f, c>> \in processed

\* C4: a chunk of a file that is still in the scope, unchanged,
\* stays in the scope's vector index and chunk archive unless the scope is
\* deleted.
C4_ChunksKept ==
    [][\A s \in Scopes :
         \A c \in Range(gold[s].chunks) \cup Range(silver[s]) :
           (exists'[s] /\ bronze'[s][c.source] = c.text) =>
             /\ c \in Range(gold[s].chunks) => c \in Range(gold'[s].chunks)
             /\ c \in Range(silver[s]) => c \in Range(silver'[s])]_vars

NormEdge(t, scope) ==
    Edge(Lower(Strip(t.subject)), Lower(Strip(t.predicate)), scope,
         Lower(Strip(t.object)))

\* C5: in every graph state, a second insert_triple with the same arguments
\* creates no entity and no relationship: the graph after two calls is the
\* graph after one, with one node per name and one edge per triple and scope.
C5_InsertIdempotent ==
    \A t \in RawTriples, s \in Scopes :
      LET once  == insert_triple(entities, relations, t.subject, t.predicate,
                                 t.object, s)
          twice == insert_triple(once.entities, once.relations, t.subject,
                                 t.predicate, t.object, s)
      IN  /\ twice = once
          /\ \A n \in BagToSet(twice.entities) : CopiesIn(n, twice.entities) = 1
          /\ \A r \in BagToSet(twice.relations) : CopiesIn(r, twice.relations) = 1
          /\ \A n, m \in BagToSet(twice.entities) : n.name = m.name => n = m

\* a triple is in the graph under both scopes and inserting it again, in
\* another spelling, changes nothing
C5_Witness ==
    /\ BagIn(NormEdge(TripleAB, KB), relations)
    /\ BagIn(NormEdge(TripleAB, KB2), relations)
    /\ insert_triple(entities, relations, TripleAB2.subject, TripleAB2.predicate,
                     TripleAB2.object, KB).relations = relations

Touches(r, n) == r.s = n.name \/ r.o = n.name

\* the step deletes scope s
Deletes(s) == exists[s] /\ ~exists'[s]

C7_DeleteCleans ==
    [][\A s \in Scopes :
         Deletes(s) =>
           /\ \A r \in BagToSet(relations') : r.scope # s
           /\ \A n \in BagToSet(entities') : Degree(relations', n.name) > 0]_vars

\* C8: when every attempt of the rewrite call fails, the vector search and the
\* synthesis prompt use the user's original question, and the pipeline goes on
\* to the vector search
C8_RewriteFallback ==
    (ans.stage # "none" /\ ans.rewriteFailed) => ans.query = ans.question

C10_NoTermsNoRaise ==
    (ans.stage \notin {"none", "search"} /\ Vocabulary(ans.docs) = {})
    => (~ans.raised /\ ans.triples = EmptyBag)

\* C11: for every non-empty list of texts and every k, extract_keywords
\* returns at most k terms, lower-cased and pairwise distinct, in descending
\* order of score with equal scores in vocabulary order, and no term left out
\* scores higher than a term returned.
C11_KeywordsRanked ==
    call.fn = "extract_keywords" =>
      LET terms    == call.out.terms
          features == SortedTerms(Vocabulary(call.texts))
          scores   == Scores(features, call.texts)
          At(t)    == CHOOSE j \in DOMAIN features : features[j] = t
      IN  /\ ~call.out.raised
          /\ Len(terms) <= call.top_k
          /\ \A i \in DOMAIN terms :
                /\ terms[i] = Lower(terms[i])
                /\ terms[i] \in Range(features)
          /\ \A i, j \in DOMAIN terms :
                i < j => /\ terms[i] # terms[j]
                         /\ \/ scores[At(terms[i])] > scores[At(terms[j])]
                            \/ /\ scores[At(terms[i])] = scores[At(terms[j])]
                               /\ At(terms[i]) < At(terms[j])
          /\ \A j \in DOMAIN features :
                features[j] \notin Range(terms) =>
                  \A i \in DOMAIN terms : scores[j] <= scores[At(terms[i])]

\* C12: when every attempt of the synthesis call fails the caller gets a
\* non-empty error string, and no answered question returns the empty string.
C12_NeverEmptyAnswer ==
    (ans.stage # "none" /\ ~ans.raised) => ans.result # <<>>

\* C13: when every attempt of the synthesis call fails, the stored
\* conversation history is what it was before the call.
C13_FailureKeepsHistory ==
    (ans.stage = "synthesis" /\ ans.synthFailed) => ans.histSame

\* C14: the conversation history only grows by appending; a successful
\* synthesis adds one user and one assistant message at the end, the system
\* message stands once, at position 0, and the list handed to the call is
\* left as it was.
C14_HistoryAppends ==
    [][/\ StartsWith(chat_history', chat_history)
       /\ (ans'.stage = "synthesis" /\ ~ans'.synthFailed /\ turns' # turns) =>
            LET n == Len(chat_history')
            IN  /\ n = Len(chat_history) + (IF chat_history = <<>> THEN 3 ELSE 2)
                /\ chat_history'[n - 1].role = "user"
                /\ chat_history'[n].role = "assistant"
                /\ chat_history'[1].role = "system"
                /\ \A i \in 2..n : chat_history'[i].role # "system"
                /\ ans'.passedSame]_vars

C14_Witness ==
    /\ turns = 2
    /\ ans.stage = "synthesis" /\ ~ans.synthFailed
    /\ Len(chat_history) = 5
    /\ chat_history[3].role = "assistant"

\* C15: the first question after a change of scope is sent to the model
\* with no user or assistant message of the previous scope: of the messages
\* stored after it, only its own prompt and reply are not the system message.
C15_ScopeChangeResets ==
    (ans.scopeChanged /\ ans.stage = "synthesis") =>
        Cardinality({i \in DOMAIN chat_history : chat_history[i].role # "system"})
            = (IF ans.synthFailed THEN 1 ELSE 2)

\* C19: a question against a scope whose index cannot be loaded ends in the
\* error raised by the vector search, shown to the user: no keyword
\* extraction, graph query or synthesis request follows, no empty result
\* stands in for it, and the conversation history is left as it was.
C19_MissingIndexIsError ==
    (ans.stage # "none" /\ ~gold[ans.scope].stored) =>
        /\ ans.stage = "search" /\ ans.raised
        /\ ans.docs = <<>> /\ ans.triples = EmptyBag
        /\ ans.calls <= RewriteAttempts
        /\ ans.histSame
        /\ messages[Len(messages)] =
                [role |-> "assistant", content |-> ErrorText("search")]
        /\ ErrorText("search") # <<>>

C19_Witness ==
    /\ ans.stage = "search" /\ ans.raised
    /\ ~gold[ans.scope].stored
    /\ chat_history # <<>>

C17_NormalisedTriples ==
    \A ts \in WellFormed :
        (/\ call.fn = "extract_triples_with_llm"
         /\ call.max_retries >= 1
         /\ call.outcomes[1] = Reply(Prose \o RenderArray(ts))) =>
            call.out.triples =
                [i \in DOMAIN ts |-> Triple(Lower(Strip(ts[i].subject)),
                                            Lower(Strip(ts[i].predicate)),
                                            Lower(Strip(ts[i].object)))]

\* C18: every entity name and relationship type in the graph is trimmed and
\* lower-cased, and upserting two triples of one scope that differ only in
\* letter case or surrounding white space leaves the same two entities and
\* the single relationship that upserting one of them leaves.
C18_NormalisedGraph ==
    LET Plain(x)  == x = Lower(Strip(x))
        Same(t, u) == /\ Lower(Strip(t.subject)) = Lower(Strip(u.subject))
                      /\ Lower(Strip(t.predicate)) = Lower(Strip(u.predicate))
                      /\ Lower(Strip(t.object)) = Lower(Strip(u.object))
        g0 == [entities |-> entities, relations |-> relations, inserted |-> 0]
    IN  /\ \A n \in BagToSet(entities) : Plain(n.name)
        /\ \A r \in BagToSet(relations) : Plain(r.type) /\ Plain(r.s) /\ Plain(r.o)
        /\ \A t, u \in RawTriples, s \in Scopes :
              (Same(t, u) /\ Strip(t.subject) # <<>>) =>
                LET one  == InsertAll(g0, <<t>>, s)
                    both == InsertAll(g0, <<t, u>>, s)
                    e    == NormEdge(t, s)
                IN  /\ both.entities = one.entities
                    /\ both.relations = one.relations
                    /\ both.inserted = 2
                    /\ CopiesIn(e, both.relations) = 1
                    /\ Cardinality({n \in BagToSet(both.entities) :
                                        n.name \in {e.s, e.o}}) = 2
                    /\ \A n \in BagToSet(both.entities) :
                            CopiesIn(n, both.entities) = 1

\* the graph holds what the two spellings of one triple left in scope kb:
\* two entities and one relationship
C18_Witness ==
    /\ BagCardinality(entities) = 2
    /\ BagCardinality(relations) = 1
    /\ BagIn(NormEdge(TripleAB2, KB), relations)
    /\ InsertAll([entities |-> entities, relations |-> relations, inserted |-> 0],
                 <<TripleAB, TripleAB2>>, KB).relations = relations

\* C20: when two ingestion runs interleave their ledger checks, no update is
\* lost: once both runs have finished, the ledger holds every scope/filename
\* entry that either run wrote.
C20_NoLostUpdate ==
    (\A p \in DOMAIN procs : procs[p].pc = "done") =>
        \A p \in DOMAIN procs : \A k \in procs[p].wrote : k \in DOMAIN ledger

\* C22: when the response parses to an array, the elements that are not
\* well-formed triples are dropped and the well-formed ones of the same
\* response are returned: a malformed element does not fail the attempt.
C22_MalformedDropped ==
    (/\ call.fn = "extract_triples_with_llm"
     /\ call.max_retries >= 1
     /\ Attempt(call.outcomes[1]).parsed) =>
        /\ call.out.attempts = 1
        /\ call.out.triples = Attempt(call.outcomes[1]).wellFormed

C23_OnlyThatFileSkipped ==
    call.fn = "load_documents" =>
      LET dir == call.dir
          Due(f) == /\ dir[f] \notin {NoFile, Unreadable}
                    /\ ~is_already_ingested(call.led, call.scope, f, dir[f]).ret
                    /\ Lower(Suffix(f)) \in SupportedExt
                    /\ f \notin call.failing
          due == SelectSeq(GlobOrder, Due)
      IN  /\ ~call.out.raised
          /\ call.out.docs = [i \in DOMAIN due |-> Chunk(due[i], dir[due[i]])]

\* C24: a run of the three stages whose CHUNK stage produces zero chunks
\* changes neither the chunk archive nor the vector index nor the graph,
\* calls no model, and ends with the success message.
C24_ZeroChunksNoChange ==
    [][(call'.fn = "run_ingestion_ui" /\ call'.chunks = <<>>) =>
          /\ silver' = silver
          /\ gold' = gold
          /\ entities' = entities /\ relations' = relations
          /\ call'.modelCalls = 0
          /\ call'.reported = "success"]_vars

\* C25: a run whose GRAPH stage fails still ends with the success message,
\* and the archive and the index hold what CHUNK and EMBED wrote.
C25_GraphFailureIsSuccess ==
    (call.fn = "run_ingestion_ui" /\ call.graphFailed) =>
        /\ call.reported = "success"
        /\ call.chunks # <<>> => silver[call.scope] = call.chunks
        /\ (call.chunks # <<>> /\ ~call.embedFailed) =>
                gold[call.scope] = [stored |-> TRUE, chunks |-> call.chunks]

\* C26: a run that had chunks to embed and did not write the index does not
\* end with the success message.
C26_EmbedFailureReported ==
    (call.fn = "run_ingestion_ui" /\ call.embedFailed) =>
        call.reported = "failed"

C28_DeleteExactlyX ==
    call.fn = "delete_scope" =>
        LET X      == call.scope
            before == call.store
            after  == call.out
            Of(n)  == {ScopedKey(n, f) : f \in Files} \cap DOMAIN before.ledger
        IN  /\ DOMAIN after.ledger = DOMAIN before.ledger \ Of(X)
            /\ after.ret = Cardinality(Of(X))
            /\ \A n \in ScopeNames \ {X} :
                  /\ \A k \in Of(n) : k \in DOMAIN after.ledger
                                       /\ after.ledger[k] = before.ledger[k]
                  /\ after.bronze[n] = before.bronze[n]
                  /\ after.silver[n] = before.silver[n]
                  /\ after.gold[n] = before.gold[n]

\* C29: answering a question makes at most three rewrite requests and at most
\* three synthesis requests, and the wait after the n-th failed request of
\* either loop is 1.5 * n seconds.
C29_BoundedRetries ==
    ans.stage # "none" =>
        /\ ans.calls <= RewriteAttempts + ChatAttempts
        /\ Len(ans.sleeps) <= ans.calls
        /\ \E a \in 0..RewriteAttempts, b \in 0..ChatAttempts :
              ans.sleeps = [n \in 1..a |-> 15 * n] \o [n \in 1..b |-> 15 * n]

C29_Witness ==
    /\ ans.stage = "synthesis"
    /\ ans.calls = RewriteAttempts + ChatAttempts
    /\ Len(ans.sleeps) = RewriteAttempts + ChatAttempts

====
